---- MODULE Spec2Model ----
(***************************************************************************)
(* Model of suivi_candidatures.py: a single-table SQLite store of job      *)
(* applications (candidatures), the add/edit dialog, CSV import/export,    *)
(* the filter proxy of the table view and the deadline reminder label.     *)
(*                                                                         *)
(* Text is modelled by TLA+ strings, read character by character with      *)
(* SubSeq.  A Python value of type "str | None" is a sequence of length    *)
(* at most one: None is << >> and the string s is <<s>>.                   *)
(***************************************************************************)
EXTENDS Integers, Sequences, FiniteSets, TLC

(***************************************************************************)
(* Bounds of the model.                                                    *)
(***************************************************************************)
\* rows the table may hold
MaxRows == 2
\* highest id AUTOINCREMENT may hand out
MaxId == 3
\* days the clock may advance past StartDate
MaxDay == 1
\* data rows of a CSV file the user imports
MaxCsvRows == 1

(***************************************************************************)
(* Program constants.                                                      *)
(***************************************************************************)
PRIORITES == <<"Faible", "Moyenne", "Élevée">>
STATUTS == <<"À postuler", "Envoyé", "En attente", "Relancé", "Refusé", "Accepté">>
CANAL_ENVOI == <<"Email", "Plateforme", "Site carrière", "Recommandation", "Autre">>
\* self.remind_days = 3
DefaultRemindDays == 3

Range(s) == {s[i] : i \in DOMAIN s}

(***************************************************************************)
(* Optional strings.                                                       *)
(***************************************************************************)
None == << >>
Some(s) == <<s>>
\* Python truthiness of a "str | None"
Truthy(v) == v # None /\ v # Some("")
\* Python "v or None"
OrNone(v) == IF Truthy(v) THEN v ELSE None
\* Python "v or ''"
OrEmpty(v) == IF Truthy(v) THEN v[1] ELSE ""

(***************************************************************************)
(* Characters and strings.                                                 *)
(***************************************************************************)
Char(s, i) == SubSeq(s, i, i)
\* the characters the model's texts are drawn from, in code point order
CodePoints ==
    <<" ", "(", ")", "-", ".", "/", "0", "1", "2", "3", "4", "5", "6", "7",
      "8", "9", ":", "A", "D", "E", "F", "M", "P", "R", "S", "a", "b", "c",
      "d", "e", "f", "g", "h", "i", "l", "m", "n", "o", "p", "r", "s", "t",
      "u", "v", "y", "À", "É", "à", "è", "é">>
Ord(c) == CHOOSE i \in DOMAIN CodePoints : CodePoints[i] = c
Digits == <<"0", "1", "2", "3", "4", "5", "6", "7", "8", "9">>
IsDigit(c) == c \in Range(Digits)
DigitValue(c) == (CHOOSE i \in DOMAIN Digits : Digits[i] = c) - 1

\* str.lower() on one character
LowerChar(c) ==
    CASE c = "A" -> "a" [] c = "D" -> "d" [] c = "E" -> "e" [] c = "F" -> "f"
      [] c = "M" -> "m" [] c = "P" -> "p" [] c = "R" -> "r" [] c = "S" -> "s"
      [] c = "À" -> "à" [] c = "É" -> "é"
      [] OTHER -> c

RECURSIVE Lower(_)
Lower(s) ==
    IF s = "" THEN ""
    ELSE LowerChar(Char(s, 1)) \o Lower(SubSeq(s, 2, Len(s)))

IsSpace(c) == c = " "

RECURSIVE LStrip(_)
LStrip(s) ==
    IF s # "" /\ IsSpace(Char(s, 1)) THEN LStrip(SubSeq(s, 2, Len(s))) ELSE s

RECURSIVE RStrip(_)
RStrip(s) ==
    IF s # "" /\ IsSpace(Char(s, Len(s))) THEN RStrip(SubSeq(s, 1, Len(s) - 1)) ELSE s

\* str.strip()
Strip(s) == RStrip(LStrip(s))

\* Python's s > t on strings: by code point, a proper prefix is smaller
RECURSIVE StrGreater(_, _)
StrGreater(s, t) ==
    IF s = "" THEN FALSE
    ELSE IF t = "" THEN TRUE
    ELSE IF Char(s, 1) # Char(t, 1) THEN Ord(Char(s, 1)) > Ord(Char(t, 1))
    ELSE StrGreater(SubSeq(s, 2, Len(s)), SubSeq(t, 2, Len(t)))

StrLeq(s, t) == ~StrGreater(s, t)

\* " ".join(parts)
RECURSIVE Join(_)
Join(parts) ==
    IF Len(parts) = 0 THEN ""
    ELSE IF Len(parts) = 1 THEN parts[1]
    ELSE parts[1] \o " " \o Join(Tail(parts))

\* decimal text of a natural number, as str(int) and csv.writer write it
RECURSIVE IntToStr(_)
IntToStr(n) ==
    IF n < 10 THEN Digits[n + 1]
    ELSE IntToStr(n \div 10) \o Digits[(n % 10) + 1]

AllDigits(s) == s # "" /\ \A i \in 1..Len(s) : IsDigit(Char(s, i))

RECURSIVE DigitsToInt(_)
DigitsToInt(s) ==
    IF s = "" THEN 0
    ELSE 10 * DigitsToInt(SubSeq(s, 1, Len(s) - 1)) + DigitValue(Char(s, Len(s)))

(***************************************************************************)
(* Calendar dates: [y, m, d] records, formatted as zero-padded ISO text.   *)
(***************************************************************************)
IsLeap(y) == (y % 4 = 0 /\ y % 100 # 0) \/ y % 400 = 0
DaysInMonth(y, m) ==
    IF m = 2 THEN (IF IsLeap(y) THEN 29 ELSE 28)
    ELSE IF m \in {4, 6, 9, 11} THEN 30 ELSE 31

NextDay(dt) ==
    IF dt.d < DaysInMonth(dt.y, dt.m) THEN [dt EXCEPT !.d = dt.d + 1]
    ELSE IF dt.m < 12 THEN [y |-> dt.y, m |-> dt.m + 1, d |-> 1]
    ELSE [y |-> dt.y + 1, m |-> 1, d |-> 1]

\* date + timedelta(days = n)
RECURSIVE AddDays(_, _)
AddDays(dt, n) == IF n = 0 THEN dt ELSE AddDays(NextDay(dt), n - 1)

\* the calendar order of two dates
DateLeq(a, b) ==
    \/ a.y < b.y
    \/ a.y = b.y /\ a.m < b.m
    \/ a.y = b.y /\ a.m = b.m /\ a.d <= b.d

RECURSIVE ZeroPad(_, _)
ZeroPad(s, width) == IF Len(s) >= width THEN s ELSE ZeroPad("0" \o s, width)

\* strftime("%Y-%m-%d") and QDate.toString("yyyy-MM-dd")
strftime(dt) ==
    ZeroPad(IntToStr(dt.y), 4) \o "-" \o ZeroPad(IntToStr(dt.m), 2)
        \o "-" \o ZeroPad(IntToStr(dt.d), 2)

IsIsoDate(s) ==
    /\ Len(s) = 10
    /\ Char(s, 5) = "-" /\ Char(s, 8) = "-"
    /\ AllDigits(SubSeq(s, 1, 4)) /\ AllDigits(SubSeq(s, 6, 7))
    /\ AllDigits(SubSeq(s, 9, 10))
    /\ DigitsToInt(SubSeq(s, 6, 7)) \in 1..12
    /\ DigitsToInt(SubSeq(s, 9, 10))
          \in 1..DaysInMonth(DigitsToInt(SubSeq(s, 1, 4)), DigitsToInt(SubSeq(s, 6, 7)))

\* datetime.strptime(s, "%Y-%m-%d") on zero-padded ISO text
strptime(s) ==
    [y |-> DigitsToInt(SubSeq(s, 1, 4)), m |-> DigitsToInt(SubSeq(s, 6, 7)),
     d |-> DigitsToInt(SubSeq(s, 9, 10))]

\* the date of the first day of the model's clock
StartDate == [y |-> 2025, m |-> 9, d |-> 29]

(***************************************************************************)
(* State.                                                                  *)
(***************************************************************************)
VARIABLES
    \* the rows of table candidatures, in rowid order
    db,
    \* the last id AUTOINCREMENT handed out (sqlite_sequence)
    seq,
    \* the rows QSqlTableModel holds since its last select()
    model,
    \* days elapsed since StartDate
    clock,
    \* MainWindow.remind_days
    remind_days,
    \* the text of MainWindow.lbl_alerts
    lbl_alerts,
    \* the CandidatureDialog being executed, if any
    dlg,
    \* what the last handler did to its collaborators, in order: the SQL
    \* writes it executed, the message boxes and status messages it showed
    log,
    \* CandidatureFilterProxy's fields and the two filter combo boxes
    proxy,
    \* the rows of the CSV file written by export_csv (<< >>: none written)
    file

vars == <<db, seq, model, clock, remind_days, lbl_alerts, dlg, log, proxy, file>>

Today == AddDays(StartDate, clock)

\* the nine columns a dialog or a CSV row provides
PayloadFields ==
    <<"numero", "titre", "structure", "date_limite", "priorite", "canal_envoi",
      "statut", "date_envoi", "notes">>

\* headers of export_csv, fields of _row_to_dict
AllFields ==
    <<"id", "numero", "titre", "structure", "date_limite", "priorite",
      "canal_envoi", "statut", "date_envoi", "notes", "created_at">>

(***************************************************************************)
(* The store: the three parameterized writes and the count query.  A write *)
(* fails when the engine reports an error (ioFail: locked or unwritable    *)
(* file) or when it breaks "titre TEXT NOT NULL".                          *)
(***************************************************************************)
\* CURRENT_TIMESTAMP, the time of day left out
CurrentTimestamp == strftime(Today) \o " 00:00:00"

InsertOk(d, ioFail) == ~ioFail /\ d.titre # None

\* INSERT INTO candidatures (...) VALUES (...)
InsertInto(tbl, lastId, d) ==
    Append(tbl, d @@ [id |-> lastId + 1, created_at |-> Some(CurrentTimestamp)])

\* the rows "WHERE id = :id" selects for an integer id
RowsWithId(tbl, idv) == {i \in DOMAIN tbl : tbl[i].id = idv}

\* the integer an INTEGER column compares a bound text with; -1: not numeric
TextToId(s) == IF AllDigits(s) THEN DigitsToInt(s) ELSE -1

UpdateOk(tbl, idv, d, ioFail) ==
    ~ioFail /\ (RowsWithId(tbl, idv) = {} \/ d.titre # None)

\* the row written anew, as REPLACE INTO would: created_at takes its default
UpdateSet_replace(tbl, idv, d) ==
    [i \in DOMAIN tbl |->
        IF tbl[i].id = idv
        THEN d @@ [id |-> idv, created_at |-> Some(CurrentTimestamp)]
        ELSE tbl[i]]

\* UPDATE candidatures SET <the nine columns> WHERE id = :id
UpdateSet(tbl, idv, d) ==
    [i \in DOMAIN tbl |-> IF tbl[i].id = idv THEN d @@ tbl[i] ELSE tbl[i]]

RECURSIVE Without(_, _)
Without(tbl, idv) ==
    IF tbl = << >> THEN << >>
    ELSE IF Head(tbl).id = idv THEN Without(Tail(tbl), idv)
    ELSE <<Head(tbl)>> \o Without(Tail(tbl), idv)

\* DELETE FROM candidatures WHERE id = <id>
DeleteFrom(tbl, idv) == Without(tbl, idv)

\* BETWEEN with its upper bound left out
Between_exclusive(v, lo, hi) == StrLeq(lo, v) /\ StrGreater(hi, v)

\* date_limite BETWEEN :d1 AND :d2, on TEXT values
Between(v, lo, hi) == StrLeq(lo, v) /\ StrLeq(v, hi)

\* SELECT COUNT(*) ... WHERE statut = 'À postuler' AND date_limite IS NOT NULL
\*   AND date_limite BETWEEN :d1 AND :d2
SelectCount(tbl, d1, d2) ==
    Cardinality({i \in DOMAIN tbl :
        /\ tbl[i].statut = Some("À postuler")
        /\ tbl[i].date_limite # None
        /\ Between(tbl[i].date_limite[1], d1, d2)})

(***************************************************************************)
(* Reminders.                                                              *)
(***************************************************************************)
\* the count query answered as if it could not fail
count_deadline_within_ignores_failure(days, qFail) ==
    SelectCount(db, strftime(Today), strftime(AddDays(Today, days)))

\* qFail: q.exec() fails, or q.next() finds no row
count_deadline_within(days, qFail) ==
    LET today == strftime(Today)
        limit == strftime(AddDays(Today, days))
    IN  IF qFail THEN 0 ELSE SelectCount(db, today, limit)

\* the warning sign and the less-or-equal sign of the label are written
\* "(!)" and "<=" here
AlertText(n, days) ==
    IF n > 0
    THEN "(!) " \o IntToStr(n) \o " candidature(s) avec date limite <= "
             \o IntToStr(days) \o " j"
    ELSE ""

\* the label update_reminders writes for a window of days
RemindersText(days, qFail) == AlertText(count_deadline_within(days, qFail), days)

\* the outcome of the count query, as an entry of log
SelectOutcome(qFail) == IF qFail THEN "SELECT failed" ELSE "SELECT ok"

\* the 60 s timer, and the single shot after start-up
update_reminders(qFail) ==
    /\ lbl_alerts' = RemindersText(remind_days, qFail)
    /\ log' = <<SelectOutcome(qFail)>>
    /\ UNCHANGED <<db, seq, model, clock, remind_days, dlg, proxy, file>>

\* spin_remind.valueChanged: a modal dialog blocks the spin box
on_remind_days_changed(days, qFail) ==
    /\ ~dlg.open
    /\ days # remind_days
    /\ remind_days' = days
    /\ lbl_alerts' = RemindersText(days, qFail)
    /\ log' = <<SelectOutcome(qFail)>>
    /\ UNCHANGED <<db, seq, model, clock, dlg, proxy, file>>

\* the date changes; no handler runs
Midnight ==
    /\ clock < MaxDay
    /\ clock' = clock + 1
    /\ UNCHANGED <<db, seq, model, remind_days, lbl_alerts, dlg, log, proxy, file>>

(***************************************************************************)
(* What a handler shows and executes, as entries of log.                   *)
(***************************************************************************)
InsertDone == "INSERT ok"
InsertFailed == "INSERT failed"
UpdateDone == "UPDATE ok"
UpdateFailed == "UPDATE failed"
DeleteDone == "DELETE ok"
DeleteFailed == "DELETE failed"
CriticalInsert == "critical: Erreur d'insertion"
CriticalUpdate == "critical: Erreur lors de la mise à jour"
CriticalDelete == "critical: Erreur de suppression"
CriticalNoId == "critical: Impossible de retrouver l'ID de la candidature."
WarningTitre == "warning: Le champ Titre est obligatoire."
InfoSelectEdit == "information: Sélectionnez une ligne à modifier."
InfoSelectDelete == "information: Sélectionnez une ligne à supprimer."
DialogAccepted == "dialog: Accepted"
DialogRejected == "dialog: Rejected"
QuestionYes == "question: Yes"
QuestionNo == "question: No"
StatusAdded == "status: Candidature ajoutée"
StatusEdited == "status: Candidature modifiée"
StatusDeleted == "status: Candidature supprimée"
StatusImported == "status: Import terminé"
StatusExported == "status: Exporté"

(***************************************************************************)
(* CandidatureDialog.                                                      *)
(***************************************************************************)
NoDialog == [open |-> FALSE, mode |-> "none", row |-> 0, form |-> << >>]

\* the widgets as __init__ leaves them
NewForm ==
    [numero |-> "", titre |-> "", structure |-> "", date_limite |-> Today,
     priorite |-> PRIORITES[1], canal_envoi |-> CANAL_ENVOI[1],
     statut |-> STATUTS[1], date_envoi |-> Today, notes |-> ""]

\* set_qdate: a value strptime rejects leaves the widget's date
set_qdate(current, value) ==
    IF Truthy(value) /\ IsIsoDate(value[1]) THEN strptime(value[1]) ELSE current

\* setCurrentText guarded by "in <list>"
set_choice(current, value, choices) ==
    IF value # None /\ value[1] \in Range(choices) THEN value[1] ELSE current

load_data(d) ==
    [numero |-> OrEmpty(d.numero),
     titre |-> OrEmpty(d.titre),
     structure |-> OrEmpty(d.structure),
     date_limite |-> set_qdate(NewForm.date_limite, d.date_limite),
     priorite |-> set_choice(NewForm.priorite, d.priorite, PRIORITES),
     canal_envoi |-> set_choice(NewForm.canal_envoi, d.canal_envoi, CANAL_ENVOI),
     statut |-> set_choice(NewForm.statut, d.statut, STATUTS),
     date_envoi |-> set_qdate(NewForm.date_envoi, d.date_envoi),
     notes |-> OrEmpty(d.notes)]

\* << >> for None, <<payload>> for the dict
get_data(form) ==
    LET titre == Strip(form.titre)
    IN  IF titre = "" THEN << >>
        ELSE <<[numero |-> OrNone(Some(Strip(form.numero))),
                titre |-> Some(titre),
                structure |-> OrNone(Some(Strip(form.structure))),
                date_limite |-> Some(strftime(form.date_limite)),
                priorite |-> Some(form.priorite),
                canal_envoi |-> Some(form.canal_envoi),
                statut |-> Some(form.statut),
                date_envoi |-> Some(strftime(form.date_envoi)),
                notes |-> OrNone(Some(Strip(form.notes)))]>>

(***************************************************************************)
(* The writes of MainWindow.  es is [db, seq, log], the store and the log  *)
(* as the running handler has left them so far.                            *)
(***************************************************************************)
insert_row(es, d, ioFail) ==
    IF InsertOk(d, ioFail)
    THEN [db |-> InsertInto(es.db, es.seq, d), seq |-> es.seq + 1,
          log |-> Append(es.log, InsertDone)]
    ELSE [es EXCEPT !.log = @ \o <<InsertFailed, CriticalInsert>>]

\* _update_row without its message box
update_row_silent(es, row, d, ioFail) ==
    LET id_val == model[row].id
    IN  IF id_val = 0 THEN [es EXCEPT !.log = Append(@, CriticalNoId)]
        ELSE IF UpdateOk(es.db, id_val, d, ioFail)
        THEN [es EXCEPT !.db = UpdateSet(es.db, id_val, d),
                        !.log = Append(@, UpdateDone)]
        ELSE [es EXCEPT !.log = Append(@, UpdateFailed)]

update_row(es, row, d, ioFail) ==
    LET id_val == model[row].id
    IN  IF id_val = 0 THEN [es EXCEPT !.log = Append(@, CriticalNoId)]
        ELSE IF UpdateOk(es.db, id_val, d, ioFail)
        THEN [es EXCEPT !.db = UpdateSet(es.db, id_val, d),
                        !.log = Append(@, UpdateDone)]
        ELSE [es EXCEPT !.log = @ \o <<UpdateFailed, CriticalUpdate>>]

\* the table stays within the model's bounds
InBounds(es) == Len(es.db) <= MaxRows /\ es.seq <= MaxId

(***************************************************************************)
(* add_record, edit_selected, delete_selected.  dlg.exec() runs a nested   *)
(* event loop: a handler that opens the dialog is two steps, up to exec()  *)
(* and from its return.  What the user enters in the dialog is the input   *)
(* patch of the second step: the widgets it changes, with their contents.  *)
(***************************************************************************)
add_record_exec ==
    /\ ~dlg.open
    /\ dlg' = [open |-> TRUE, mode |-> "add", row |-> 0, form |-> NewForm]
    /\ log' = << >>
    /\ UNCHANGED <<db, seq, model, clock, remind_days, lbl_alerts, proxy, file>>

\* the widgets once the user has typed and picked what patch holds
UserInput(form, patch) == patch @@ form

\* Cancel: exec() returns Rejected and the handler ends
dialog_rejected ==
    /\ dlg.open
    /\ dlg' = NoDialog
    /\ log' = Append(log, DialogRejected)
    /\ UNCHANGED <<db, seq, model, clock, remind_days, lbl_alerts, proxy, file>>

\* OK: buttons.accepted is connected to accept, exec() returns Accepted
add_record_accepted(patch, ioFail) ==
    /\ dlg.open /\ dlg.mode = "add"
    /\ dlg' = NoDialog
    /\ LET data == get_data(UserInput(dlg.form, patch))
       IN  IF data = << >>
           THEN /\ log' = <<DialogAccepted, WarningTitre>>
                /\ UNCHANGED <<db, seq, model>>
           ELSE LET es == insert_row([db |-> db, seq |-> seq,
                                      log |-> <<DialogAccepted>>], data[1], ioFail)
                IN  /\ InBounds(es)
                    /\ db' = es.db
                    /\ seq' = es.seq
                    /\ model' = es.db
                    /\ log' = Append(es.log, StatusAdded)
    /\ UNCHANGED <<clock, remind_days, lbl_alerts, proxy, file>>

\* row: the source row of the table's current index, 0 when it is invalid
edit_selected_exec(row) ==
    /\ ~dlg.open
    /\ IF row = 0
       THEN /\ log' = <<InfoSelectEdit>>
            /\ dlg' = dlg
       ELSE /\ log' = << >>
            /\ dlg' = [open |-> TRUE, mode |-> "edit", row |-> row,
                       form |-> load_data(model[row])]
    /\ UNCHANGED <<db, seq, model, clock, remind_days, lbl_alerts, proxy, file>>

edit_selected_accepted(patch, ioFail) ==
    /\ dlg.open /\ dlg.mode = "edit"
    /\ dlg' = NoDialog
    /\ LET new_data == get_data(UserInput(dlg.form, patch))
       IN  IF new_data = << >>
           THEN /\ log' = <<DialogAccepted, WarningTitre>>
                /\ UNCHANGED <<db, seq, model>>
           ELSE LET es == update_row([db |-> db, seq |-> seq,
                                      log |-> <<DialogAccepted>>],
                                     dlg.row, new_data[1], ioFail)
                IN  /\ db' = es.db
                    /\ seq' = es.seq
                    /\ model' = es.db
                    /\ log' = Append(es.log, StatusEdited)
    /\ UNCHANGED <<clock, remind_days, lbl_alerts, proxy, file>>

delete_selected(row, yes, ioFail) ==
    /\ ~dlg.open
    /\ IF row = 0
       THEN /\ log' = <<InfoSelectDelete>>
            /\ UNCHANGED <<db, model>>
       ELSE IF ~yes
       THEN /\ log' = <<QuestionNo>>
            /\ UNCHANGED <<db, model>>
       ELSE IF ioFail
       THEN /\ log' = <<QuestionYes, DeleteFailed, CriticalDelete>>
            /\ UNCHANGED <<db, model>>
       ELSE /\ db' = DeleteFrom(db, model[row].id)
            /\ model' = db'
            /\ log' = <<QuestionYes, DeleteDone, StatusDeleted>>
    /\ UNCHANGED <<seq, clock, remind_days, lbl_alerts, dlg, proxy, file>>

(***************************************************************************)
(* CSV import and export.  A file is the sequence of its data rows, each   *)
(* the dict csv.DictReader yields: a column the file lacks reads None.     *)
(***************************************************************************)
\* what csv.writer writes for a value
CsvCell(f, v) ==
    IF f = "id" THEN IntToStr(v)
    ELSE IF v = None THEN "" ELSE v[1]

\* the data rows export_csv writes for the rows of the table model
writerows(rows) ==
    [r \in DOMAIN rows |-> [h \in Range(AllFields) |-> CsvCell(h, rows[r][h])]]

export_csv ==
    /\ ~dlg.open
    /\ file' = writerows(model)
    /\ log' = <<StatusExported>>
    /\ UNCHANGED <<db, seq, model, clock, remind_days, lbl_alerts, dlg, proxy>>

\* csv.DictReader over a file export_csv wrote
DictReader(f) == [r \in DOMAIN f |-> [h \in Range(AllFields) |-> Some(f[r][h])]]

\* the payload with the cells as read, an empty cell kept as ""
Payload_keep_empty(row) == [f \in Range(PayloadFields) |-> row[f]]

\* the payload import_csv builds from a row
Payload(row) == [f \in Range(PayloadFields) |-> OrNone(row[f])]

\* one iteration of "for row in reader"; fail: whether the engine fails
\* the UPDATE (fail.upd) and the INSERT (fail.ins) of this row
import_row(es, row, fail) ==
    LET payload == Payload(row)
        rid == row.id
    IN  IF Truthy(rid)
        THEN IF UpdateOk(es.db, TextToId(rid[1]), payload, fail.upd)
             THEN [es EXCEPT !.db = UpdateSet(es.db, TextToId(rid[1]), payload),
                             !.log = Append(@, UpdateDone)]
             ELSE insert_row([es EXCEPT !.log = Append(@, UpdateFailed)],
                             payload, fail.ins)
        ELSE insert_row(es, payload, fail.ins)

RECURSIVE import_rows(_, _, _)
import_rows(es, rows, fails) ==
    IF rows = << >> THEN es
    ELSE import_rows(import_row(es, Head(rows), Head(fails)), Tail(rows), Tail(fails))

import_csv(rows, fails) ==
    /\ ~dlg.open
    /\ LET es == import_rows([db |-> db, seq |-> seq, log |-> << >>], rows, fails)
       IN  /\ InBounds(es)
           /\ db' = es.db
           /\ seq' = es.seq
           /\ model' = es.db
           /\ log' = Append(es.log, StatusImported)
    /\ UNCHANGED <<clock, remind_days, lbl_alerts, dlg, proxy, file>>

(***************************************************************************)
(* CandidatureFilterProxy.  proxy holds its four fields and the current    *)
(* text of the two combo boxes that feed set_filter_statut and             *)
(* set_filter_priorite.                                                    *)
(*                                                                         *)
(* QRegularExpression is modelled on the patterns built from literal       *)
(* characters, "." (any character) and "(": a pattern with a "(" that no   *)
(* ")" closes is invalid, and an invalid pattern matches nothing.          *)
(***************************************************************************)
NewProxy ==
    [search_regex |-> "", filter_statut |-> None, filter_priorite |-> None,
     max_deadline |-> None, cb_statut |-> "(Tous)", cb_priorite |-> "(Toutes)"]

IsValidPattern(p) == \A i \in 1..Len(p) : Char(p, i) # "("

\* whether pattern p, case-insensitive, matches subject at offset k
MatchesAt(p, subject, k) ==
    \A i \in 1..Len(p) :
        \/ Char(p, i) = "."
        \/ LowerChar(Char(p, i)) = LowerChar(Char(subject, k + i - 1))

\* QRegularExpression(p, CaseInsensitiveOption).match(subject).hasMatch()
hasMatch(p, subject) ==
    /\ IsValidPattern(p)
    /\ \E k \in 1..(Len(subject) - Len(p) + 1) : MatchesAt(p, subject, k)

\* data(col_name) of filterAcceptsRow
data(r, col_name) == Lower(OrEmpty(r[col_name]))

SearchFields ==
    <<"numero", "titre", "structure", "priorite", "canal_envoi", "statut", "notes">>

hay(r) == Join([i \in DOMAIN SearchFields |-> data(r, SearchFields[i])])

\* ">=" in the place of ">"
deadline_reached(dl_val, max_deadline) == ~StrGreater(max_deadline, dl_val)

\* dl_val > self.max_deadline
deadline_exceeded(dl_val, max_deadline) == StrGreater(dl_val, max_deadline)

filterAcceptsRow(r) ==
    IF proxy.search_regex # "" /\ ~hasMatch(proxy.search_regex, hay(r)) THEN FALSE
    ELSE IF proxy.filter_statut # None
            /\ data(r, "statut") # Lower(proxy.filter_statut[1]) THEN FALSE
    ELSE IF proxy.filter_priorite # None
            /\ data(r, "priorite") # Lower(proxy.filter_priorite[1]) THEN FALSE
    ELSE IF Truthy(proxy.max_deadline) /\ Truthy(r.date_limite)
            /\ deadline_exceeded(r.date_limite[1], proxy.max_deadline[1]) THEN FALSE
    ELSE TRUE

\* search_edit.textChanged
set_search_text(text) ==
    /\ text # proxy.search_regex
    /\ proxy' = [proxy EXCEPT !.search_regex = text]
    /\ UNCHANGED <<db, seq, model, clock, remind_days, lbl_alerts, dlg, log, file>>

\* set_filter_statut storing the sentinel like any other text
set_filter_statut_no_sentinel(statut) ==
    /\ statut # proxy.cb_statut
    /\ proxy' = [proxy EXCEPT !.cb_statut = statut, !.filter_statut = Some(statut)]
    /\ UNCHANGED <<db, seq, model, clock, remind_days, lbl_alerts, dlg, log, file>>

\* cb_statut.currentTextChanged
set_filter_statut(statut) ==
    /\ statut # proxy.cb_statut
    /\ proxy' = [proxy EXCEPT
                    !.cb_statut = statut,
                    !.filter_statut =
                        IF statut # "" /\ statut # "(Tous)" THEN Some(statut) ELSE None]
    /\ UNCHANGED <<db, seq, model, clock, remind_days, lbl_alerts, dlg, log, file>>

\* cb_priorite.currentTextChanged
set_filter_priorite(priorite) ==
    /\ priorite # proxy.cb_priorite
    /\ proxy' = [proxy EXCEPT
                    !.cb_priorite = priorite,
                    !.filter_priorite =
                        IF priorite # "" /\ priorite # "(Toutes)" THEN Some(priorite)
                        ELSE None]
    /\ UNCHANGED <<db, seq, model, clock, remind_days, lbl_alerts, dlg, log, file>>

\* deadline_max.dateChanged, with d.toString("yyyy-MM-dd")
set_max_deadline(date_str) ==
    /\ Some(date_str) # proxy.max_deadline
    /\ proxy' = [proxy EXCEPT !.max_deadline = Some(date_str)]
    /\ UNCHANGED <<db, seq, model, clock, remind_days, lbl_alerts, dlg, log, file>>

(***************************************************************************)
(* Inputs.                                                                 *)
(***************************************************************************)
\* what the user types or picks in the dialog; << >>: nothing
FormPatches ==
    {<< >>, [titre |-> "Dev"], [titre |-> " "],
     [titre |-> "Dev", statut |-> "Envoyé"],
     [titre |-> "Dev", date_limite |-> AddDays(StartDate, 2)]}

\* values the user gives the reminder spin box
RemindChoices == {0, DefaultRemindDays}

CsvRow(rid, titre, statut, date_limite) ==
    [id |-> rid, numero |-> Some(""), titre |-> titre, structure |-> Some(""),
     date_limite |-> date_limite, priorite |-> Some("Moyenne"),
     canal_envoi |-> Some("Recommandation"), statut |-> statut,
     date_envoi |-> Some(""), notes |-> None]

\* rows of the files the user imports
CsvRows ==
    {CsvRow(Some(""), Some("Dev"), Some("À postuler"), Some("2025-09-30")),
     CsvRow(Some("1"), Some("Data"), Some("Envoyé"), Some("2025-10-03")),
     CsvRow(Some("1"), Some(""), Some("À postuler"), Some("")),
     CsvRow(None, Some(" "), None, Some("2025-09-28"))}

SeqsUpTo(S, n) == UNION {[1..k -> S] : k \in 1..n}

UserFiles == SeqsUpTo(CsvRows, MaxCsvRows)

Fails == [upd : BOOLEAN, ins : BOOLEAN]

Init ==
    /\ db = << >>
    /\ seq = 0
    /\ model = << >>
    /\ clock = 0
    /\ remind_days = DefaultRemindDays
    /\ lbl_alerts = ""
    /\ dlg = NoDialog
    /\ log = << >>
    /\ proxy = NewProxy
    /\ file = << >>

(***************************************************************************)
(* Spec: the writes of the application and their failures: the dialog      *)
(* handlers, delete and CSV import, each write failing or not.             *)
(***************************************************************************)
Next ==
    \/ add_record_exec
    \/ dialog_rejected
    \/ \E patch \in FormPatches, ioFail \in BOOLEAN : add_record_accepted(patch, ioFail)
    \/ \E row \in 0..Len(model) : edit_selected_exec(row)
    \/ \E patch \in FormPatches, ioFail \in BOOLEAN : edit_selected_accepted(patch, ioFail)
    \/ \E row \in 0..Len(model), yes \in BOOLEAN, ioFail \in BOOLEAN :
          delete_selected(row, yes, ioFail)
    \/ \E rows \in UserFiles : \E fails \in [DOMAIN rows -> Fails] :
          import_csv(rows, fails)

Spec == Init /\ [][Next]_vars

(***************************************************************************)
(* ReminderSpec: the reminder label over a store the dialog handlers fill, *)
(* with the timer, the spin box and the passing days.                      *)
(***************************************************************************)
ReminderNext ==
    \/ add_record_exec
    \/ dialog_rejected
    \/ \E patch \in FormPatches : add_record_accepted(patch, FALSE)
    \/ \E row \in 0..Len(model) : edit_selected_exec(row)
    \/ \E patch \in FormPatches : edit_selected_accepted(patch, FALSE)
    \/ \E row \in 0..Len(model) : delete_selected(row, TRUE, FALSE)
    \/ \E qFail \in BOOLEAN : update_reminders(qFail)
    \/ \E days \in RemindChoices, qFail \in BOOLEAN :
          on_remind_days_changed(days, qFail)
    \/ Midnight

ReminderSpec == Init /\ [][ReminderNext]_vars

(***************************************************************************)
(* RoundTripSpec: CSV files written by export_csv and read back, over a    *)
(* store that imports of user files and deletions build.  Every write is   *)
(* executed by the engine.                                                 *)
(***************************************************************************)
NoFails(rows) == [i \in DOMAIN rows |-> [upd |-> FALSE, ins |-> FALSE]]

\* import_csv of the file export_csv wrote last
import_exported == import_csv(DictReader(file), NoFails(file))

RoundTripNext ==
    \/ \E row \in CsvRows : import_csv(<<row>>, NoFails(<<row>>))
    \/ \E row \in 1..Len(model) : delete_selected(row, TRUE, FALSE)
    \/ export_csv
    \/ file # << >> /\ import_exported
    \/ Midnight

RoundTripSpec == Init /\ [][RoundTripNext]_vars

(***************************************************************************)
(* UpdateSpec: the UPDATEs of edit_selected and of import_csv, failing or   *)
(* not, over records that imports insert on different days.                *)
(***************************************************************************)
UpdateNext ==
    \/ \E row \in CsvRows, fail \in Fails : import_csv(<<row>>, <<fail>>)
    \/ \E row \in 0..Len(model) : edit_selected_exec(row)
    \/ dialog_rejected
    \/ \E patch \in FormPatches, ioFail \in BOOLEAN : edit_selected_accepted(patch, ioFail)
    \/ Midnight

UpdateSpec == Init /\ [][UpdateNext]_vars

(***************************************************************************)
(* FilterSpec: the filter proxy over a table of sample rows, the four      *)
(* filter widgets changing in any order.                                   *)
(***************************************************************************)
FilterPayload(numero, titre, date_limite, priorite, canal_envoi, statut, notes) ==
    [numero |-> numero, titre |-> Some(titre), structure |-> None,
     date_limite |-> date_limite, priorite |-> priorite,
     canal_envoi |-> Some(canal_envoi), statut |-> statut,
     date_envoi |-> None, notes |-> notes]

FilterPayloads ==
    {FilterPayload(None, "Dev", Some("2025-09-30"), Some("Moyenne"),
                   "Recommandation", Some("À postuler"), None),
     FilterPayload(Some("7"), "Data (H/F)", None, Some("Élevée"),
                   "Email", Some("Envoyé"), Some("a.b")),
     FilterPayload(None, "Dev", Some("2025-10-03"), Some("élevée"),
                   "Autre", Some("envoyé"), None)}

\* the table after inserting the payloads ps in order
RECURSIVE Inserted(_, _)
Inserted(tbl, ps) ==
    IF ps = << >> THEN tbl
    ELSE Inserted(InsertInto(tbl, Len(tbl), Head(ps)), Tail(ps))

SearchTexts == {"", "DEV", "recom", ".", "("}
StatutChoices == {"(Tous)"} \cup Range(STATUTS)
PrioriteChoices == {"(Toutes)"} \cup Range(PRIORITES)
DeadlineChoices == {strftime(AddDays(StartDate, k)) : k \in {0, 1, 4}}

FilterInit ==
    /\ clock = 0
    /\ \E ps \in SeqsUpTo(FilterPayloads, MaxRows) :
          /\ db = Inserted(<< >>, ps)
          /\ seq = Len(ps)
    /\ model = db
    /\ remind_days = DefaultRemindDays
    /\ lbl_alerts = ""
    /\ dlg = NoDialog
    /\ log = << >>
    /\ proxy = NewProxy
    /\ file = << >>

FilterNext ==
    \/ \E text \in SearchTexts : set_search_text(text)
    \/ \E statut \in StatutChoices : set_filter_statut(statut)
    \/ \E priorite \in PrioriteChoices : set_filter_priorite(priorite)
    \/ \E date_str \in DeadlineChoices : set_max_deadline(date_str)

FilterSpec == FilterInit /\ [][FilterNext]_vars

(***************************************************************************)
(* The reminder (ReminderSpec).                                            *)
(***************************************************************************)
\* the label a successful count of the store as it is gives for remind_days
ExpectedAlert == RemindersText(remind_days, FALSE)

\* C1: every timer tick, every successful insert, update or delete of a
\* record and every change of remind_days leaves the reminder label showing
\* the due-soon count of the store as it then is: empty iff that count is 0,
\* otherwise the count and remind_days.
C1_AlertFollowsEvents ==
    [][(\/ update_reminders(FALSE)
        \/ on_remind_days_changed(remind_days', FALSE)
        \/ db' # db)
       => lbl_alerts' = ExpectedAlert']_vars

\* windows the count is compared on
WindowDays == 0..(DefaultRemindDays + 2)

\* the rows due within days of today, by the calendar
DueSoon(days) ==
    {i \in DOMAIN db :
        /\ db[i].statut = Some("À postuler")
        /\ db[i].date_limite # None
        /\ IsIsoDate(db[i].date_limite[1])
        /\ DateLeq(Today, strptime(db[i].date_limite[1]))
        /\ DateLeq(strptime(db[i].date_limite[1]), AddDays(Today, days))}

C11_FailedCountIsQuiet ==
    [][(\/ update_reminders(TRUE)
        \/ on_remind_days_changed(remind_days', TRUE))
       => /\ count_deadline_within(remind_days', TRUE) = 0
          /\ lbl_alerts' = ""]_vars

\* the count query has just failed over a store holding a record that is
\* due within remind_days, and the label is empty
C11_Witness ==
    /\ log = <<SelectOutcome(TRUE)>>
    /\ count_deadline_within(remind_days, FALSE) > 0
    /\ lbl_alerts = ""

(***************************************************************************)
(* The writes and their failures (Spec).                                   *)
(***************************************************************************)
\* C2: an imported row whose id is non-empty and is the id of a record
\* updates that record in place and creates none; a row whose id is
\* non-empty and is the id of no record inserts a new record holding the
\* row's fields; a row without id, or with an empty one, inserts a new
\* record.  (Stated for rows with a titre, the engine executing each write.)
C2_ImportUpsert ==
    [][\A row \in CsvRows :
          (Truthy(row.titre) /\ import_csv(<<row>>, NoFails(<<row>>)))
          => IF Truthy(row.id) /\ RowsWithId(db, TextToId(row.id[1])) # {}
             THEN /\ Len(db') = Len(db)
                  /\ \A i \in DOMAIN db :
                        db'[i] = IF db[i].id = TextToId(row.id[1])
                                 THEN Payload(row) @@ db[i] ELSE db[i]
             ELSE /\ Len(db') = Len(db) + 1
                  /\ SubSeq(db', 1, Len(db)) = db
                  /\ \A f \in Range(PayloadFields) :
                        db'[Len(db')][f] = Payload(row)[f]]_vars

\* a step keeps every record in its place with its id and created_at, and
\* keeps every field of the records whose id is not in ids
KeepsIdentity(ids) ==
    /\ Len(db') >= Len(db)
    /\ \A i \in DOMAIN db :
          /\ db'[i].id = db[i].id
          /\ db'[i].created_at = db[i].created_at
          /\ db[i].id \notin ids => db'[i] = db[i]

\* the id an import_csv row addresses its UPDATE to, if it has one
RowTarget(row) == IF Truthy(row.id) THEN {TextToId(row.id[1])} ELSE {}

\* C12 (UpdateSpec): an update never changes id or created_at.  Every
\* edit_selected, and every import_csv of a row, whether its UPDATE succeeds,
\* matches no record or fails, leaves each record in its place with the id
\* and the created_at it had, and leaves every record other than the one the
\* UPDATE addresses unchanged in all fields; edit_selected creates no record.
C12_UpdateKeepsIdAndCreatedAt ==
    [][/\ \A patch \in FormPatches, ioFail \in BOOLEAN :
             edit_selected_accepted(patch, ioFail)
             => Len(db') = Len(db) /\ KeepsIdentity({model[dlg.row].id})
       /\ \A row \in CsvRows, fail \in Fails :
             import_csv(<<row>>, <<fail>>) => KeepsIdentity(RowTarget(row))]_vars

\* record 1, inserted the day before, has been updated by an import row and
\* record 2, inserted today, has just been updated by edit_selected; each
\* still has the created_at of its insertion
C12_Witness ==
    /\ clock = 1
    /\ log = <<DialogAccepted, UpdateDone, StatusEdited>>
    /\ Len(db) = 2
    /\ db[1].id = 1 /\ db[1].titre = Some("Data")
    /\ db[1].created_at = Some(strftime(StartDate) \o " 00:00:00")
    /\ db[2].id = 2 /\ db[2].titre = Some("Dev") /\ db[2].statut = Some("Envoyé")
    /\ db[2].created_at = Some(CurrentTimestamp)

\* C8: every stored record has a titre that is not empty once trimmed.
C8_TitreNeverEmpty ==
    \A i \in DOMAIN db : db[i].titre # None /\ Strip(db[i].titre[1]) # ""

FailedWrites == {InsertFailed, UpdateFailed, DeleteFailed}
Criticals == {CriticalInsert, CriticalUpdate, CriticalDelete}

\* C9: every failed INSERT, UPDATE or DELETE of a handler is reported: an
\* error message box follows it before the handler returns, nothing but
\* failed writes between the two.
C9_EveryFailedWriteReported ==
    \A i \in DOMAIN log :
        log[i] \in FailedWrites
        => \E j \in (i + 1)..Len(log) :
              /\ log[j] \in Criticals
              /\ \A k \in (i + 1)..(j - 1) : log[k] \in FailedWrites

\* C9, amended: a failed INSERT and a failed DELETE are each followed at once
\* by their error message box, and so is a failed UPDATE of edit_selected; a
\* failed UPDATE of an import_csv row is followed by the INSERT of that row
\* and by no message box of its own.
C9_FailedWritesReportedButImportUpdate ==
    \A i \in DOMAIN log :
        /\ log[i] = InsertFailed => i < Len(log) /\ log[i + 1] = CriticalInsert
        /\ log[i] = DeleteFailed => i < Len(log) /\ log[i + 1] = CriticalDelete
        /\ log[i] = UpdateFailed
           => /\ i < Len(log)
              /\ IF log[1] = DialogAccepted
                 THEN log[i + 1] = CriticalUpdate
                 ELSE log[i + 1] \in {InsertDone, InsertFailed}

\* edit_selected has reported its failed UPDATE
C9_Witness ==
    log = <<DialogAccepted, UpdateFailed, CriticalUpdate, StatusEdited>>

Successes == {StatusAdded, StatusEdited, StatusDeleted}

\* C13: when the INSERT of add_record, the UPDATE of edit_selected or the
\* DELETE of delete_selected fails, the handler ends with its error message
\* box, shows none of the status messages "Candidature ajoutée",
\* "Candidature modifiée", "Candidature supprimée", and leaves the store as
\* it was.
C13_FailedWriteAborts ==
    [][(/\ log' # << >>
        /\ log'[1] \in {DialogAccepted, QuestionYes}
        /\ Range(log') \cap FailedWrites # {})
       => /\ log'[Len(log')] \in Criticals
          /\ Range(log') \cap Successes = {}
          /\ db' = db /\ seq' = seq]_vars

\* C10: once the user has confirmed the dialog with a titre that is empty
\* after trimming, the dialog has not been accepted and is still open.
C10_EmptyTitreKeepsDialogOpen ==
    WarningTitre \in Range(log) => dlg.open /\ DialogAccepted \notin Range(log)

(***************************************************************************)
(* Export and import (RoundTripSpec).                                      *)
(***************************************************************************)
\* C3: import_csv of the file export_csv has just written leaves the table
\* as it was: the same rows, every field of every row unchanged, no id
\* handed out.
C3_RoundTrip ==
    [][(log = <<StatusExported>> /\ import_exported)
       => db' = db /\ seq' = seq /\ model' = model]_vars

\* a table of two rows read back from its own export, one of them with
\* NULL fields and a titre of blanks
C3_Witness ==
    /\ Len(db) = 2
    /\ file = writerows(model)
    /\ log = <<UpdateDone, UpdateDone, StatusImported>>
    /\ \E i \in DOMAIN db : db[i].statut = None /\ db[i].titre = Some(" ")
    /\ \E i \in DOMAIN db : db[i].statut # None

(***************************************************************************)
(* The filter proxy (FilterSpec).                                          *)
(***************************************************************************)
IsSubstring(s, t) ==
    \E k \in 1..(Len(t) - Len(s) + 1) : SubSeq(t, k, k + Len(s) - 1) = s

\* d > m in the lexicographic order of the code points
LexGreater(d, m) ==
    \E k \in 1..Len(d) :
        /\ k - 1 <= Len(m)
        /\ SubSeq(d, 1, k - 1) = SubSeq(m, 1, k - 1)
        /\ (k > Len(m) \/ Ord(Char(d, k)) > Ord(Char(m, k)))

OnlySearchActive ==
    /\ proxy.search_regex # ""
    /\ proxy.cb_statut = "(Tous)" /\ proxy.cb_priorite = "(Toutes)"
    /\ proxy.max_deadline = None

OnlyDeadlineActive ==
    /\ proxy.search_regex = ""
    /\ proxy.cb_statut = "(Tous)" /\ proxy.cb_priorite = "(Toutes)"
    /\ proxy.max_deadline # None

\* C5: with the search text s as the only active filter, a row is accepted
\* iff s, lower-cased, is a substring of the row's lower-cased text fields
\* joined, an absent field read as the empty string.
C5_SearchIsSubstring ==
    OnlySearchActive
    => \A i \in DOMAIN model :
          filterAcceptsRow(model[i])
          <=> IsSubstring(Lower(proxy.search_regex), hay(model[i]))

\* C6: with max_deadline = m as the only active filter, a row whose
\* date_limite d is present is rejected iff d > m lexicographically, and a
\* row without date_limite is accepted.
C6_MaxDeadline ==
    OnlyDeadlineActive
    => \A i \in DOMAIN model :
          filterAcceptsRow(model[i])
          <=> \/ model[i].date_limite = None
              \/ ~LexGreater(model[i].date_limite[1], proxy.max_deadline[1])

\* a row on the cutoff is shown, another one is hidden
C6_Witness ==
    /\ OnlyDeadlineActive
    /\ \E i \in DOMAIN model :
          model[i].date_limite = proxy.max_deadline /\ filterAcceptsRow(model[i])
    /\ \E i \in DOMAIN model : ~filterAcceptsRow(model[i])

\* C7: after any sequence of the four setters a row is visible iff every
\* active sub-filter passes: the search, the statut and the priorite picked
\* in the combo boxes, compared without case, and the maximal deadline; the
\* entries "(Tous)" and "(Toutes)" switch their sub-filter off, and with no
\* sub-filter active every row is visible.
C7_VisibleIffAllActivePass ==
    \A i \in DOMAIN model :
        filterAcceptsRow(model[i])
        <=> /\ proxy.search_regex # ""
               => hasMatch(proxy.search_regex, hay(model[i]))
            /\ proxy.cb_statut # "(Tous)"
               => Lower(OrEmpty(model[i].statut)) = Lower(proxy.cb_statut)
            /\ proxy.cb_priorite # "(Toutes)"
               => Lower(OrEmpty(model[i].priorite)) = Lower(proxy.cb_priorite)
            /\ proxy.max_deadline # None
               => \/ model[i].date_limite = None
                  \/ ~LexGreater(model[i].date_limite[1], proxy.max_deadline[1])

\* the four sub-filters active, one row passing them all, one stopped by
\* the deadline alone
C7_Witness ==
    /\ proxy.search_regex # "" /\ proxy.filter_statut = Some("Envoyé")
    /\ proxy.filter_priorite = Some("Élevée") /\ proxy.max_deadline # None
    /\ \E i \in DOMAIN model : filterAcceptsRow(model[i])
    /\ \E i \in DOMAIN model :
          /\ ~filterAcceptsRow(model[i])
          /\ data(model[i], "statut") = "envoyé"
          /\ data(model[i], "priorite") = "élevée"
          /\ hasMatch(proxy.search_regex, hay(model[i]))

====
